---- MODULE Spec2Model ----
(***************************************************************************)
(* Model of pkg/cnab/cnab-to-oci/registry.go: Registry.PullBundle and      *)
(* Registry.PushBundle, with the registries they talk to.                  *)
(*                                                                         *)
(* A reference string is represented by its "/"-separated components and   *)
(* its tag: [parts |-> <<"x.io", "app">>, tag |-> "v1"] is "x.io/app:v1".  *)
(* An optional relocation map, a pointer to an ImageRelocationMap, is     *)
(* [present, m]: present = FALSE is the nil pointer.                       *)
(***************************************************************************)
EXTENDS Integers, Sequences, FiniteSets, TLC

\* ---------------------------------------------------------------- bounds
MaxCalls == 3
\* the most "/"-separated components of a reference string that is parsed
MaxParts == 3

\* ------------------------------------------------------------ references
DefaultDomain == "docker.io"
LegacyDefaultDomain == "index.docker.io"
OfficialRepoPrefix == "library"

\* components that contain a "." (or ":"), so that a leading one is a domain
DottedComponents == {"x.io", "y.io", "z.io", "docker.io", "index.docker.io"}
\* components that are valid lower-case path components
LowerComponents == {"app", "copy", "library"} \cup DottedComponents
\* "App", with its upper-case letter, is in neither set: it is no valid component
ValidTags == {"", "v1"}

\* the reference strings callers hand to PullBundle and PushBundle
Tags ==
  { [parts |-> <<"x.io", "app">>, tag |-> "v1"],
    [parts |-> <<"y.io", "copy">>, tag |-> "v1"],
    [parts |-> <<"z.io", "copy">>, tag |-> "v1"],
    [parts |-> <<"x.io", "App">>, tag |-> "v1"],
    [parts |-> <<>>, tag |-> ""] }

\* reference.splitDockerDomain: the domain and the remainder of a name
splitDockerDomain(parts) ==
  LET noDomain == Len(parts) <= 1 \/ Head(parts) \notin DottedComponents
      domain == IF noDomain \/ Head(parts) = LegacyDefaultDomain
                THEN DefaultDomain ELSE Head(parts)
      rest == IF noDomain THEN parts ELSE Tail(parts)
  IN [domain |-> domain,
      remainder |-> IF domain = DefaultDomain /\ Len(rest) = 1
                    THEN <<OfficialRepoPrefix>> \o rest ELSE rest]

\* reference.ParseNormalizedNamed: the normalized reference, or an error
ParseNormalizedNamed(s) ==
  LET sp == splitDockerDomain(s.parts)
      ok == /\ Len(s.parts) > 0
            /\ \A i \in 1..Len(sp.remainder) : sp.remainder[i] \in LowerComponents
            /\ s.tag \in ValidTags
  IN [ok |-> ok, domain |-> sp.domain, path |-> sp.remainder, tag |-> s.tag]

\* the reference is taken as written, without the default domain and prefix
ParseOCIReference_NotNormalized(ociRef) ==
  LET n == ParseNormalizedNamed(ociRef)
      explicit == Len(ociRef.parts) > 1 /\ Head(ociRef.parts) \in DottedComponents
  IN IF explicit THEN n ELSE [n EXCEPT !.domain = "", !.path = ociRef.parts]

\* lines 204-206
ParseOCIReference(ociRef) == ParseNormalizedNamed(ociRef)

\* the parse error is not looked at
parseFailed_Ignored(ref) == FALSE

\* lines 51 and 90: err != nil after parsing the reference
parseFailed(ref) == ~ref.ok

\* reference.Domain
Domain(ref) == ref.domain

\* ref.String(): the textual form of a parsed reference
RefString(ref) == [parts |-> <<ref.domain>> \o ref.path, tag |-> ref.tag]

\* ------------------------------------------------- images, bundles, maps
\* the registries that exist; docker.io is never reachable from here
Registries == {"x.io", "y.io", "z.io"}

\* an image reference: the registry domain and the repository name
Loc(d, n) == [dom |-> d, name |-> n]
NoSubject == Loc("", "")
InvImage == Loc("x.io", "inv")
WebImage == Loc("x.io", "web")

\* the content digest of an image; content-addressed, the same everywhere
ImageDigest(name) == IF name = "inv" THEN "sha256:inv" ELSE "sha256:web"

\* bundle.Bundle{}: the zero value
EmptyBundle == [InvocationImages |-> <<>>, Images |-> <<>>]

\* the bundle the caller has built: images at x.io, invocation image digested
BuiltBundle ==
  [InvocationImages |-> <<[Image |-> InvImage, Digest |-> "sha256:inv"]>>,
   Images |-> <<[Image |-> WebImage, Digest |-> ""]>>]

\* a nil relocation map pointer, and a non-nil one
NoMap == [present |-> FALSE, m |-> <<>>]
SomeMap(m) == [present |-> TRUE, m |-> m]

\* the manifests another tool may have published at x.io/app:v1
ForeignManifests ==
  { [bun |-> [InvocationImages |-> inv, Images |-> imgs], relo |-> rm] :
      inv \in { <<[Image |-> InvImage, Digest |-> ""]>>,
                <<[Image |-> InvImage, Digest |-> "sha256:inv"]>> },
      imgs \in { <<>>, <<[Image |-> WebImage, Digest |-> ""]>> },
      rm \in { <<>>, (WebImage :> Loc("z.io", "web")) } }
  \cup { [bun |-> [InvocationImages |-> <<>>, Images |-> <<>>], relo |-> <<>>] }

\* ----------------------------------------------------------------- errors
\* an error value: its message, what it is about, and the wrapped cause
NoError == [msg |-> "", subject |-> NoSubject, cause |-> "", causeSubject |-> NoSubject]
NewError(msg, subject) ==
  [msg |-> msg, subject |-> subject, cause |-> "", causeSubject |-> NoSubject]
\* errors.Wrap(err, msg)
Wrap(err, msg, subject) ==
  [msg |-> msg, subject |-> subject, cause |-> err.msg, causeSubject |-> err.subject]

\* the missing digest is reported like a failed pull
NewErrNoContentDigest_AsPullError(image) ==
  NewError("unable to pull remote bundle", image)

\* NewErrNoContentDigest(image)
NewErrNoContentDigest(image) ==
  NewError("unable to verify that the pulled image is the invocation image referenced by the bundle because the bundle does not specify a content digest", image)

\* ------------------------------------------------------------------ state
VARIABLES
  manifests,  \* registry side: normalized reference string -> [bun, relo]
  images,     \* registry side: the image references that exist
  up,         \* the registries that are reachable
  held,       \* caller side: the bundle and relocation map in hand
  ret,        \* what the last call returned to the caller
  call,       \* what the last call did: endpoints built, transport calls, output
  ncalls,     \* number of PullBundle/PushBundle calls made
  refIn,      \* a reference string handed to ParseOCIReference on its own
  refOut,     \* the results of parsing it, and of parsing the result's string
  sinkOK      \* whether writes to r.Out succeed

vars == <<manifests, images, up, held, ret, call, ncalls, refIn, refOut, sinkOK>>

NoCall ==
  [op |-> "none", tag |-> [parts |-> <<>>, tag |-> ""], insecure |-> FALSE,
   reloMap |-> NoMap, reachable |-> {}, allowlists |-> <<>>,
   credLoads |-> 0, pulls |-> 0, fixups |-> 0, pushes |-> 0,
   copies |-> <<>>, out |-> <<>>, panicked |-> FALSE]

NoRet == [bun |-> EmptyBundle, relo |-> NoMap, err |-> NoError]

Init ==
  /\ \E f \in ForeignManifests :
       /\ manifests = ([parts |-> <<"x.io", "app">>, tag |-> "v1"] :> f)
       /\ images = {InvImage, WebImage} \cup {f.relo[k] : k \in DOMAIN f.relo}
  /\ up = Registries
  /\ held = [bun |-> BuiltBundle, relo |-> NoMap]
  /\ ret = NoRet
  /\ call = NoCall
  /\ ncalls = 0
  /\ refIn = [parts |-> <<>>, tag |-> ""]
  /\ refOut = <<>>
  /\ sinkOK = TRUE

\* -------------------------------------------------------------- transport
\* createResolver(insecureRegistries): loads the default docker config and
\* builds a resolver with exactly the given allowlist
createResolver(c, insecureRegistries) ==
  [c EXCEPT !.allowlists = Append(@, insecureRegistries),
            !.credLoads = @ + 1]

\* remotes.Pull(ctx, ref, resolver): the manifest and relocation map stored
\* at ref; fails when the registry is unreachable or the reference is unknown
\* (any of these is a transport error)
remotesPull(ref, mans, reachable) ==
  IF Domain(ref) \notin reachable
  THEN [err |-> NewError("registry unreachable", NoSubject)]
  ELSE IF RefString(ref) \notin DOMAIN mans
  THEN [err |-> NewError("not found", NoSubject)]
  ELSE [err |-> NoError, bun |-> mans[RefString(ref)].bun,
        reloMap |-> mans[RefString(ref)].relo]

\* ------------------------------------------------------------- PullBundle
\* the domain is put on the allowlist whatever the flag says
insecureList_FlagIgnored(insecureRegistry, ref) == <<Domain(ref)>>

\* lines 55-59: the allowlist of one call
insecureList(insecureRegistry, ref) ==
  IF insecureRegistry THEN <<Domain(ref)>> ELSE <<>>

\* pullReturn that never hands the stored relocation map on
pullReturn_MapDropped(bun, reloMap) ==
  IF bun.InvocationImages[1].Digest = ""
  THEN [bun |-> EmptyBundle, relo |-> NoMap,
        err |-> NewErrNoContentDigest(bun.InvocationImages[1].Image)]
  ELSE [bun |-> bun, relo |-> NoMap, err |-> NoError]

\* pullReturn without the digest check of lines 77-80
pullReturn_NoDigestCheck(bun, reloMap) ==
  IF Cardinality(DOMAIN reloMap) = 0
  THEN [bun |-> bun, relo |-> NoMap, err |-> NoError]
  ELSE [bun |-> bun, relo |-> SomeMap(reloMap), err |-> NoError]

\* lines 76-85: the digest check and the nil-for-empty relocation map
pullReturn(bun, reloMap) ==
  IF bun.InvocationImages[1].Digest = ""
  THEN [bun |-> EmptyBundle, relo |-> NoMap,
        err |-> NewErrNoContentDigest(bun.InvocationImages[1].Image)]
  ELSE IF Cardinality(DOMAIN reloMap) = 0
  THEN [bun |-> bun, relo |-> NoMap, err |-> NoError]
  ELSE [bun |-> bun, relo |-> SomeMap(reloMap), err |-> NoError]

\* The caller keeps what a successful pull returns (held). The debug line of
\* lines 61-69 goes to r.Err, which is not part of the state.
PullBundle(tag, insecureRegistry) ==
  LET ref == ParseNormalizedNamed(tag)
      c0 == [NoCall EXCEPT !.op = "pull", !.tag = tag, !.insecure = insecureRegistry,
                           !.reachable = up]
  IN
  /\ ncalls < MaxCalls
  /\ ncalls' = ncalls + 1
  /\ UNCHANGED <<manifests, images, up, refIn, refOut, sinkOK>>
  /\ IF parseFailed(ref)
     THEN /\ ret' = [bun |-> EmptyBundle, relo |-> NoMap,
                     err |-> Wrap(NewError("invalid reference format", NoSubject),
                                  "invalid bundle tag format, expected REGISTRY/name:tag",
                                  NoSubject)]
          /\ call' = c0
          /\ UNCHANGED held
     ELSE \E p \in {remotesPull(ref, manifests, up)} :
          LET c1 == createResolver(c0, insecureList(insecureRegistry, ref))
              c2 == [c1 EXCEPT !.pulls = @ + 1]
          IN IF p.err # NoError
             THEN /\ ret' = [bun |-> EmptyBundle, relo |-> NoMap,
                             err |-> Wrap(p.err, "unable to pull remote bundle", NoSubject)]
                  /\ call' = c2
                  /\ UNCHANGED held
             ELSE IF Len(p.bun.InvocationImages) = 0
             THEN \* line 76: index out of range, the call panics
                  /\ ret' = NoRet
                  /\ call' = [c2 EXCEPT !.panicked = TRUE]
                  /\ UNCHANGED held
             ELSE /\ ret' = pullReturn(p.bun, p.reloMap)
                  /\ call' = c2
                  /\ held' = IF ret'.err = NoError
                             THEN [bun |-> ret'.bun, relo |-> ret'.relo]
                             ELSE held

\* ------------------------------------------------------------ displayEvent
\* the error of an end event is not looked at
displayEvent_ErrorIgnored(ev) ==
  IF ev.EventType = "CopyImageStart"
  THEN <<[text |-> "Starting to copy image", image |-> ev.SourceImage, detail |-> ""]>>
  ELSE IF ev.EventType = "CopyImageEnd"
  THEN <<[text |-> "Completed image copy", image |-> ev.SourceImage, detail |-> ""]>>
  ELSE <<>>

\* lines 180-191: the line written to r.Out for one fixup event
displayEvent(ev) ==
  IF ev.EventType = "CopyImageStart"
  THEN <<[text |-> "Starting to copy image", image |-> ev.SourceImage, detail |-> ""]>>
  ELSE IF ev.EventType = "CopyImageEnd"
  THEN IF ev.Error # ""
       THEN <<[text |-> "Failed to copy image", image |-> ev.SourceImage, detail |-> ev.Error]>>
       ELSE <<[text |-> "Completed image copy", image |-> ev.SourceImage, detail |-> ""]>>
  ELSE <<>>

\* ------------------------------------------------------------ FixupBundle
\* every image of the bundle, in the order fixup handles them
AllImages(bun) == bun.InvocationImages \o bun.Images

\* the bundle with the digest of its k-th image (in AllImages order) set
WithDigest(bun, k, d) ==
  IF k <= Len(bun.InvocationImages)
  THEN [bun EXCEPT !.InvocationImages[k].Digest = d]
  ELSE [bun EXCEPT !.Images[k - Len(bun.InvocationImages)].Digest = d]

\* where an image is hosted now: its relocation-map entry, else its reference
CurrentLocation(rm, image) == IF image \in DOMAIN rm THEN rm[image] ELSE image

\* the copy of one image succeeds when both registries are reachable, the
\* image exists at the source and the transport does not fail
CopySucceeds(src, dstDom, imgs, reachable, faulted) ==
  /\ ~faulted
  /\ src \in imgs
  /\ src.dom \in reachable
  /\ dstDom \in reachable

\* fixup of the images k.. of the bundle, from the state st so far
RECURSIVE fixupFrom(_, _, _, _, _)
fixupFrom(st, k, ref, reachable, failAt) ==
  IF k > Len(AllImages(st.bun)) \/ st.err # NoError THEN st
  ELSE
    LET image == AllImages(st.bun)[k].Image
        src == CurrentLocation(st.rm, image)
        dst == Loc(Domain(ref), src.name)
        digested == WithDigest(st.bun, k, ImageDigest(src.name))
    IN IF src.dom = Domain(ref)
       THEN \* already hosted at the destination: no copy, entry unchanged
            fixupFrom([st EXCEPT !.bun = digested], k + 1, ref, reachable, failAt)
       ELSE IF CopySucceeds(src, Domain(ref), st.images, reachable, failAt = k)
       THEN fixupFrom(
              [st EXCEPT !.bun = digested,
                         !.rm = (image :> dst) @@ st.rm,
                         !.images = @ \cup {dst},
                         !.copies = Append(@, [image |-> image, src |-> src, dst |-> dst, ok |-> TRUE]),
                         !.events = @ \o <<[EventType |-> "CopyImageStart", SourceImage |-> image, Error |-> ""],
                                           [EventType |-> "CopyImageEnd", SourceImage |-> image, Error |-> ""]>>],
              k + 1, ref, reachable, failAt)
       ELSE [st EXCEPT !.err = NewError("image copy failed", image),
                       !.copies = Append(@, [image |-> image, src |-> src, dst |-> dst, ok |-> FALSE]),
                       !.events = @ \o <<[EventType |-> "CopyImageStart", SourceImage |-> image, Error |-> ""],
                                         [EventType |-> "CopyImageEnd", SourceImage |-> image, Error |-> "image copy failed"]>>]

\* remotes.FixupBundle(ctx, &bun, ref, resolver, WithEventCallback,
\* WithAutoBundleUpdate, WithRelocationMap(reloMap))
FixupBundle(bun, ref, reloMap, imgs, reachable, failAt) ==
  IF Len(bun.InvocationImages) # 1
  THEN [bun |-> bun, rm |-> reloMap, images |-> imgs, copies |-> <<>>, events |-> <<>>,
        err |-> NewError("only one invocation image supported", NoSubject)]
  ELSE fixupFrom([bun |-> bun, rm |-> reloMap, images |-> imgs, copies |-> <<>>,
                  events |-> <<>>, err |-> NoError],
                 1, ref, reachable, failAt)

\* the content digest of a published manifest
ManifestDigest(bun, rm) == [sha256 |-> <<bun, rm>>]

\* remotes.Push(ctx, &bun, rm, ref, resolver, true): publishes the manifest
remotesPush(bun, rm, ref, reachable, fault) ==
  IF fault THEN [err |-> NewError("transport failure", NoSubject)]
  ELSE IF Domain(ref) \notin reachable
  THEN [err |-> NewError("registry unreachable", NoSubject)]
  ELSE [err |-> NoError, Digest |-> ManifestDigest(bun, rm)]

\* ------------------------------------------------------------- PushBundle
\* fixup is not given the caller's relocation map
fixupBaseline_Dropped(reloMap) == <<>>

\* lines 101-104: a nil relocation map is replaced by an empty one, and the
\* map is handed to fixup as its baseline (WithRelocationMap)
fixupBaseline(reloMap) == IF ~reloMap.present THEN <<>> ELSE reloMap.m

\* the fixup error is not looked at
fixupFailed_Ignored(fx) == FALSE

\* line 106: err != nil after fixup
fixupFailed(fx) == fx.err # NoError

\* the success line carries the digest of an empty descriptor
pushedLine_NoDigest(ref, d) ==
  [text |-> "Bundle tag pushed successfully, with digest", image |-> RefString(ref),
   detail |-> ManifestDigest(EmptyBundle, <<>>)]

\* line 113: the success line written to r.Out
pushedLine(ref, d) ==
  [text |-> "Bundle tag pushed successfully, with digest", image |-> RefString(ref), detail |-> d.Digest]

\* the map handed in is returned instead of the one fixup produced
pushReturn_Baseline(reloMap, rm) ==
  IF Cardinality(DOMAIN reloMap) = 0 THEN NoMap ELSE SomeMap(reloMap)

\* the map is returned without the emptiness test
pushReturn_AlwaysPresent(reloMap, rm) == SomeMap(rm)

\* lines 115-118: nil for an empty relocation map
pushReturn(reloMap, rm) ==
  IF Cardinality(DOMAIN rm) = 0 THEN NoMap ELSE SomeMap(rm)

\* a write to r.Out that fails makes the reporter fail
reportFailed_Checked(sink, lines) == ~sink /\ lines # <<>>

\* lines 183-188: displayEvent returns nothing and drops what fmt.Fprintf
\* returns, so a failed write to r.Out is never seen by the call
reportFailed(sink, lines) == FALSE

\* the lines displayEvent writes for a sequence of events
RECURSIVE displayAll(_)
displayAll(evs) ==
  IF evs = <<>> THEN <<>> ELSE displayEvent(Head(evs)) \o displayAll(Tail(evs))

\* failAt is the transport's fault: 0 none, k the copy of the k-th image,
\* one more than the number of images the manifest push. Fixup updates the
\* bundle through &bun, whose image slices the caller's bundle shares, so the
\* caller holds the fixed-up bundle afterwards, and the returned map after a
\* successful push. call.out is what the call hands to r.Out; sink tells
\* whether those writes succeed.
PushBundle(bun, tag, reloMap, insecureRegistry, failAt, sink) ==
  LET ref == ParseOCIReference(tag)
      c0 == [NoCall EXCEPT !.op = "push", !.tag = tag, !.insecure = insecureRegistry,
                           !.reloMap = reloMap, !.reachable = up]
  IN
  /\ ncalls < MaxCalls
  /\ ncalls' = ncalls + 1
  /\ UNCHANGED <<up, refIn, refOut, sinkOK>>
  /\ IF parseFailed(ref)
     THEN /\ ret' = [bun |-> EmptyBundle, relo |-> NoMap,
                     err |-> Wrap(NewError("invalid reference format", NoSubject),
                                  "invalid bundle tag reference. expected value is REGISTRY/bundle:tag",
                                  NoSubject)]
          /\ call' = c0
          /\ UNCHANGED <<manifests, images, held>>
     ELSE \E fx \in {FixupBundle(bun, ref, fixupBaseline(reloMap), images, up, failAt)} :
          LET c1 == createResolver(c0, insecureList(insecureRegistry, ref))
              c2 == [c1 EXCEPT !.fixups = @ + 1, !.copies = fx.copies,
                               !.out = displayAll(fx.events)]
          IN /\ images' = fx.images
             /\ IF fixupFailed(fx) \/ reportFailed(sink, c2.out)
                THEN /\ ret' = [bun |-> EmptyBundle, relo |-> NoMap,
                                err |-> Wrap(fx.err, "error preparing the bundle with cnab-to-oci before pushing", NoSubject)]
                     /\ call' = c2
                     /\ held' = [held EXCEPT !.bun = fx.bun]
                     /\ UNCHANGED manifests
                ELSE \E p \in {remotesPush(fx.bun, fx.rm, ref, up, failAt = Len(AllImages(bun)) + 1)} :
                     LET c3 == [c2 EXCEPT !.pushes = @ + 1]
                     IN IF p.err # NoError
                        THEN /\ ret' = [bun |-> EmptyBundle, relo |-> NoMap,
                                        err |-> Wrap(p.err, "error pushing the bundle to", tag)]
                             /\ call' = c3
                             /\ held' = [held EXCEPT !.bun = fx.bun]
                             /\ UNCHANGED manifests
                        ELSE /\ manifests' = (RefString(ref) :> [bun |-> fx.bun, relo |-> fx.rm]) @@ manifests
                             /\ ret' = [bun |-> EmptyBundle,
                                        relo |-> pushReturn(fixupBaseline(reloMap), fx.rm),
                                        err |-> NoError]
                             /\ call' = [c3 EXCEPT !.out = Append(@, pushedLine(ref, p))]
                             /\ held' = [bun |-> fx.bun, relo |-> ret'.relo]

\* a registry goes away (the temporary registry of TestCopy is stopped)
Stoppable == {"x.io"}
StopRegistry(d) ==
  /\ d \in up
  /\ up' = up \ {d}
  /\ UNCHANGED <<manifests, images, held, ret, call, ncalls, refIn, refOut, sinkOK>>

Next ==
  \/ \E tag \in Tags, insecure \in BOOLEAN :
       PullBundle(tag, insecure)
  \/ \E tag \in Tags, insecure \in BOOLEAN, failAt \in 0..Len(AllImages(held.bun)) + 1 :
       PushBundle(held.bun, tag, held.relo, insecure, failAt, sinkOK)
  \/ \E d \in Stoppable : StopRegistry(d)

Spec == Init /\ [][Next]_vars

\* ------------------------------------------------------- a failing r.Out
\* The same operations on a Registry whose output writer (r.Out, set when the
\* Registry is constructed) either works or fails every write.
SinkManifests ==
  { f \in ForeignManifests :
      /\ Len(f.bun.InvocationImages) = 1
      /\ f.bun.InvocationImages[1].Digest # ""
      /\ Len(f.bun.Images) = 1
      /\ f.relo # <<>> }

InitSink ==
  /\ \E f \in SinkManifests :
       /\ manifests = ([parts |-> <<"x.io", "app">>, tag |-> "v1"] :> f)
       /\ images = {InvImage, WebImage} \cup {f.relo[k] : k \in DOMAIN f.relo}
  /\ up = Registries
  /\ held = [bun |-> BuiltBundle, relo |-> NoMap]
  /\ ret = NoRet
  /\ call = NoCall
  /\ ncalls = 0
  /\ refIn = [parts |-> <<>>, tag |-> ""]
  /\ refOut = <<>>
  /\ sinkOK \in BOOLEAN

SpecSink == InitSink /\ [][Next]_vars

\* ------------------------------------------------ reference parsing alone
\* the components and tags the parsed strings are made of
ParseComponents == {"x.io", "docker.io", "index.docker.io", "app", "library", "App"}
ParseTags == {"", "v1", "v 1"}

\* the reference strings of at most MaxParts components
ParseInputs ==
  { [parts |-> p, tag |-> t] :
      p \in UNION { [1..k -> ParseComponents] : k \in 0..MaxParts },
      t \in ParseTags }

InitParse ==
  /\ refIn \in ParseInputs
  /\ refOut = <<>>
  /\ sinkOK = TRUE
  /\ manifests = <<>>
  /\ images = {}
  /\ up = {}
  /\ held = [bun |-> EmptyBundle, relo |-> NoMap]
  /\ ret = NoRet
  /\ call = NoCall
  /\ ncalls = 0

\* ParseOCIReference applied to the string, then to the string form of the
\* reference it returned
Normalize ==
  /\ Len(refOut) < 2
  /\ refOut # <<>> => refOut[Len(refOut)].ok
  /\ refOut' = Append(refOut,
                      ParseOCIReference(IF refOut = <<>> THEN refIn
                                        ELSE RefString(refOut[Len(refOut)])))
  /\ UNCHANGED <<manifests, images, up, held, ret, call, ncalls, refIn, sinkOK>>

NextParse == Normalize

SpecParse == InitParse /\ [][NextParse]_vars

\* ================================================================= claims
\* a step that is one PullBundle or PushBundle call
IsCall(op) == call'.op = op /\ ncalls' = ncalls + 1

\* the reference a call's tag parses to
CallRef == ParseNormalizedNamed(call.tag)

\* the transport's answer to the pull of the last call's reference
Retrieved == remotesPull(CallRef, manifests, up)

FixupErrorMsg == "error preparing the bundle with cnab-to-oci before pushing"

\* C1: whenever PullBundle retrieves a bundle whose invocation image has an
\* empty digest, it returns the no-content-digest error for that image, an
\* empty bundle and no relocation map, whatever else the bundle holds.
C1_EmptyDigestRejected ==
  (/\ call.op = "pull"
   /\ CallRef.ok
   /\ Retrieved.err = NoError
   /\ Len(Retrieved.bun.InvocationImages) > 0
   /\ Retrieved.bun.InvocationImages[1].Digest = "")
  => /\ ret.err = NewErrNoContentDigest(Retrieved.bun.InvocationImages[1].Image)
     /\ ret.bun = EmptyBundle
     /\ ret.relo = NoMap

\* a pull of a digest-less bundle that has another image and a relocation map
C1_Witness ==
  /\ call.op = "pull"
  /\ CallRef.ok
  /\ Retrieved.err = NoError
  /\ Len(Retrieved.bun.InvocationImages) > 0
  /\ Retrieved.bun.InvocationImages[1].Digest = ""
  /\ Len(Retrieved.bun.Images) > 0
  /\ DOMAIN Retrieved.reloMap # {}
  /\ ret.err = NewErrNoContentDigest(InvImage)

\* C2: a PushBundle in which one image copy of fixup fails publishes no
\* manifest (remotes.Push is never called, the registry's manifests are
\* unchanged) and returns no relocation map and the fixup error, whose cause
\* names the failing image.
C2_FailedCopyPublishesNothing ==
  [][ (IsCall("push") /\ \E i \in DOMAIN call'.copies : ~call'.copies[i].ok)
      => /\ manifests' = manifests
         /\ call'.pushes = 0
         /\ ret'.relo = NoMap
         /\ ret'.err.msg = FixupErrorMsg
         /\ \E i \in DOMAIN call'.copies :
              /\ ~call'.copies[i].ok
              /\ ret'.err.causeSubject = call'.copies[i].image ]_vars

\* a push whose second copy failed after the first had succeeded
C2_Witness ==
  /\ call.op = "push"
  /\ Len(call.copies) = 2
  /\ call.copies[1].ok
  /\ ~call.copies[2].ok
  /\ call.pushes = 0
  /\ ret.err.msg = FixupErrorMsg
  /\ ret.err.causeSubject = WebImage

\* C3: after a successful push with a nil relocation map, a successful push
\* of the result with the map the first push returned yields a map that
\* keeps every key of the first hop and maps every key to an image that
\* exists at the second destination (no value stays at the first one).
C3_ChainedConsistency ==
  [][ (/\ call.op = "push" /\ ret.err = NoError /\ ~call.reloMap.present
       /\ IsCall("push") /\ ret'.err = NoError /\ call'.reloMap = ret.relo)
      => LET d2 == Domain(ParseNormalizedNamed(call'.tag))
             first == ret.relo.m
             final == ret'.relo.m
         IN /\ DOMAIN first \subseteq DOMAIN final
            /\ \A i \in DOMAIN call'.copies : call'.copies[i].image \in DOMAIN final
            /\ \A k \in DOMAIN final : final[k].dom = d2 /\ final[k] \in images' ]_vars

\* the second hop of a chain x.io -> y.io -> z.io has returned its map
C3_Witness ==
  /\ call.op = "push"
  /\ ret.err = NoError
  /\ call.reloMap = SomeMap((InvImage :> Loc("y.io", "inv")) @@ (WebImage :> Loc("y.io", "web")))
  /\ ret.relo = SomeMap((InvImage :> Loc("z.io", "inv")) @@ (WebImage :> Loc("z.io", "web")))
  /\ Len(call.copies) = 2

\* the relocation map covers every image of the bundle with an image that
\* exists at a reachable registry
AllRelocatedReachable(bun, relo) ==
  /\ relo.present
  /\ Len(bun.InvocationImages) = 1
  /\ \A i \in DOMAIN AllImages(bun) :
       LET o == AllImages(bun)[i].Image
       IN o \in DOMAIN relo.m /\ relo.m[o] \in images /\ relo.m[o].dom \in up

\* C4: in a push every image that has an entry in the relocation map handed
\* in is read from that entry's location, never from its original reference;
\* so with x.io unreachable a push of a bundle whose images are all relocated
\* to reachable registries succeeds when the transport does not fail.
C4_CopyOfCopyWithoutOrigin ==
  [][ /\ IsCall("push")
         => \A i \in DOMAIN call'.copies :
              LET c == call'.copies[i]
              IN c.image \in DOMAIN call'.reloMap.m => c.src = call'.reloMap.m[c.image]
      /\ (/\ IsCall("push")
          /\ "x.io" \notin up
          /\ ParseNormalizedNamed(call'.tag).ok
          /\ Domain(ParseNormalizedNamed(call'.tag)) \in up
          /\ AllRelocatedReachable(held.bun, held.relo)
          /\ PushBundle(held.bun, call'.tag, held.relo, call'.insecure, 0, sinkOK))
         => ret'.err = NoError ]_vars

\* with x.io stopped, a bundle relocated to y.io has been copied on to z.io
C4_Witness ==
  /\ call.op = "push"
  /\ "x.io" \notin call.reachable
  /\ ret.err = NoError
  /\ Len(call.copies) = 2
  /\ \A i \in DOMAIN call.copies :
       call.copies[i].src.dom = "y.io" /\ call.copies[i].dst.dom = "z.io"
  /\ [parts |-> <<"z.io", "copy">>, tag |-> "v1"] \in DOMAIN manifests

\* C5: the relocation map returned by PullBundle and PushBundle is present
\* exactly when it has at least one entry.
C5_NeverEmptyButPresent ==
  ret.relo.present <=> DOMAIN ret.relo.m # {}

\* a push that relocated nothing, with a nil map, returned a nil map
C5_Witness ==
  /\ call.op = "push"
  /\ ret.err = NoError
  /\ call.pushes = 1
  /\ call.copies = <<>>
  /\ ~call.reloMap.present
  /\ ~ret.relo.present

\* the manifest stored at the last call's reference, and its digest
Published == manifests[RefString(CallRef)]
PublishedDigest == ManifestDigest(Published.bun, Published.relo)

\* line 88: the values PushBundle returns, a relocation map pointer and an error
PushReturned == {ret.relo, ret.err}

Copied == {call.copies[i].image : i \in DOMAIN call.copies}

\* C7: the map a successful PushBundle returns holds every entry of the map
\* handed in; entries of images not copied in this push are unchanged, and
\* every entry that is new or changed belongs to an image copied in this push.
C7_MergeKeepsBaseline ==
  (call.op = "push" /\ ret.err = NoError /\ call.reloMap.present)
  => LET base == call.reloMap.m
         new == ret.relo.m
     IN /\ DOMAIN base \subseteq DOMAIN new
        /\ \A k \in DOMAIN base \ Copied : new[k] = base[k]
        /\ \A k \in DOMAIN new \ Copied : k \in DOMAIN base

\* a push to z.io of a bundle whose web image was already relocated there:
\* only the invocation image is copied, the web entry is kept
C7_Witness ==
  /\ call.op = "push"
  /\ ret.err = NoError
  /\ call.reloMap = SomeMap((WebImage :> Loc("z.io", "web")))
  /\ Copied = {InvImage}
  /\ ret.relo = SomeMap((InvImage :> Loc("z.io", "inv")) @@ (WebImage :> Loc("z.io", "web")))

\* C8: a push of the result of a successful push, with the map that push
\* returned, to the same destination copies no image, and the map it returns
\* is the one handed in.
C8_FixupIdempotent ==
  [][ (/\ call.op = "push" /\ ret.err = NoError
       /\ IsCall("push") /\ call'.tag = call.tag /\ call'.reloMap = ret.relo)
      => /\ call'.copies = <<>>
         /\ ret'.err = NoError => ret'.relo = call'.reloMap ]_vars

\* a second push to y.io of a bundle relocated to y.io: nothing copied
C8_Witness ==
  /\ call.op = "push"
  /\ ret.err = NoError
  /\ Domain(CallRef) = "y.io"
  /\ call.reloMap = SomeMap((InvImage :> Loc("y.io", "inv")) @@ (WebImage :> Loc("y.io", "web")))
  /\ call.copies = <<>>
  /\ ret.relo = call.reloMap

\* C9: a call whose reference parses builds one endpoint, with an empty
\* allowlist when the insecure flag is false and with exactly the domain of
\* the call's own reference when it is true, whatever earlier calls did.
C9_AllowlistPerCall ==
  [][ (ncalls' = ncalls + 1 /\ ParseNormalizedNamed(call'.tag).ok)
      => call'.allowlists =
           << IF call'.insecure
              THEN <<Domain(ParseNormalizedNamed(call'.tag))>>
              ELSE <<>> >> ]_vars

\* a secure call to x.io made after an insecure call: its allowlist is empty
C9_Witness ==
  /\ ncalls >= 2
  /\ call.op = "pull"
  /\ Domain(CallRef) = "x.io"
  /\ ~call.insecure
  /\ call.allowlists = << <<>> >>
  /\ call.credLoads = 1

InvalidPullMsg == "invalid bundle tag format, expected REGISTRY/name:tag"
InvalidPushMsg == "invalid bundle tag reference. expected value is REGISTRY/bundle:tag"

\* C10: a call whose reference string does not parse returns the wrapped
\* reference-format error with an empty bundle and no map, builds no
\* endpoint, loads no credentials, makes no transport call and leaves the
\* registries as they were.
C10_InvalidReferenceFailsFirst ==
  [][ (ncalls' = ncalls + 1 /\ ~ParseNormalizedNamed(call'.tag).ok)
      => /\ ret'.err.msg = (IF call'.op = "pull" THEN InvalidPullMsg ELSE InvalidPushMsg)
         /\ ret'.err.cause = "invalid reference format"
         /\ ret'.bun = EmptyBundle
         /\ ret'.relo = NoMap
         /\ call'.allowlists = <<>>
         /\ call'.credLoads = 0
         /\ call'.pulls = 0 /\ call'.fixups = 0 /\ call'.pushes = 0
         /\ call'.copies = <<>>
         /\ UNCHANGED <<manifests, images>> ]_vars

\* a push to "x.io/App:v1" was refused
C10_Witness ==
  /\ call.op = "push"
  /\ call.tag = [parts |-> <<"x.io", "App">>, tag |-> "v1"]
  /\ ret.err.msg = InvalidPushMsg
  /\ call.credLoads = 0

\* the transport's answer at the time of the last call
RetrievedThen == remotesPull(CallRef, manifests, call.reachable)

NoContentDigestMsg == "unable to verify that the pulled image is the invocation image referenced by the bundle because the bundle does not specify a content digest"
PullTransportMsg == "unable to pull remote bundle"

C12_PullReadOnly ==
  [][ IsCall("pull")
      => /\ UNCHANGED <<manifests, images>>
         /\ call'.fixups = 0 /\ call'.pushes = 0 /\ call'.copies = <<>>
         /\ (ret'.err = NoError /\ ~call'.panicked)
              => LET stored == manifests[RefString(ParseNormalizedNamed(call'.tag))]
                 IN ret'.bun = stored.bun /\ ret'.relo.m = stored.relo ]_vars

\* a pull that returned a stored, non-empty relocation map
C12_Witness ==
  /\ call.op = "pull"
  /\ ret.err = NoError
  /\ ~call.panicked
  /\ ret.relo.present
  /\ ret.relo.m = manifests[RefString(CallRef)].relo
  /\ ret.bun = manifests[RefString(CallRef)].bun

\* C13: for every reference string that parses, parsing the string form of
\* the parsed reference gives the same reference again, and the parsed
\* reference is fully qualified: its string form starts with its registry
\* domain, so that no default has to be applied to it.
C13_NormalizeIdempotent ==
  /\ (Len(refOut) >= 1 /\ refOut[1].ok)
       => /\ refOut[1].domain \in DottedComponents
          /\ splitDockerDomain(RefString(refOut[1]).parts) =
               [domain |-> refOut[1].domain, remainder |-> refOut[1].path]
  /\ Len(refOut) = 2 => refOut[2] = refOut[1]

\* "app" was normalized to docker.io/library/app, and that was parsed again
C13_Witness ==
  /\ refIn = [parts |-> <<"app">>, tag |-> ""]
  /\ Len(refOut) = 2
  /\ refOut[1] = [ok |-> TRUE, domain |-> "docker.io", path |-> <<"library", "app">>, tag |-> ""]
  /\ refOut[2] = refOut[1]

\* every image of a manifest is, through its relocation map, an image that
\* exists at the registry d
ReferencesOnlyImagesAt(man, d, imgs) ==
  \A i \in DOMAIN AllImages(man.bun) :
    LET loc == CurrentLocation(man.relo, AllImages(man.bun)[i].Image)
    IN loc \in imgs /\ loc.dom = d

\* C14: no step removes an image from a registry; a PushBundle call changes
\* no manifest but the one at its own reference; when one of its copies
\* fails it may leave copied images behind but publishes nothing; and the
\* manifest a successful call publishes references only images that exist at
\* the destination registry. So every manifest PushBundle has published keeps
\* referencing images present at its destination.
C14_PublishConsistency ==
  [][ /\ images \subseteq images'
      /\ IsCall("push")
         => LET r == RefString(ParseNormalizedNamed(call'.tag))
            IN /\ \A q \in DOMAIN manifests' \ {r} :
                    q \in DOMAIN manifests /\ manifests'[q] = manifests[q]
               /\ (\E i \in DOMAIN call'.copies : ~call'.copies[i].ok)
                    => manifests' = manifests
               /\ ret'.err # NoError => manifests' = manifests
               /\ ret'.err = NoError
                    => /\ r \in DOMAIN manifests'
                       /\ \A i \in DOMAIN call'.copies : call'.copies[i].ok
                       /\ ReferencesOnlyImagesAt(manifests'[r],
                                                 Domain(ParseNormalizedNamed(call'.tag)),
                                                 images') ]_vars

\* a push to y.io stopped in fixup: the first image is at y.io, no manifest is
C14_Witness ==
  /\ call.op = "push"
  /\ Domain(CallRef) = "y.io"
  /\ Len(call.copies) = 2
  /\ call.copies[1].ok
  /\ ~call.copies[2].ok
  /\ Loc("y.io", "inv") \in images
  /\ RefString(CallRef) \notin DOMAIN manifests

PushErrorMsg == "error pushing the bundle to"

\* C15: one call makes at most one transport pull, one fixup and one manifest
\* publish; a failed pull, a failed fixup or a failed publish is not tried
\* again: the call returns an error, and after a failed fixup the publish is
\* not attempted.
C15_NoRetry ==
  /\ call.pulls <= 1 /\ call.fixups <= 1 /\ call.pushes <= 1
  /\ call.pulls + call.fixups <= 1
  /\ (call.op = "pull" /\ CallRef.ok /\ RetrievedThen.err # NoError)
       => call.pulls = 1 /\ ret.err.msg = PullTransportMsg
  /\ (call.op = "push" /\ \E i \in DOMAIN call.copies : ~call.copies[i].ok)
       => /\ call.fixups = 1 /\ call.pushes = 0
          /\ ret.err.msg = FixupErrorMsg
  /\ (call.op = "push" /\ call.pushes = 1)
       => \/ ret.err = NoError /\ RefString(CallRef) \in DOMAIN manifests
          \/ ret.err.msg = PushErrorMsg

\* a pull from the stopped registry failed after its one attempt
C15_Witness ==
  /\ call.op = "pull"
  /\ Domain(CallRef) = "x.io"
  /\ "x.io" \notin call.reachable
  /\ call.pulls = 1
  /\ ret.err.msg = PullTransportMsg
  /\ ret.err.cause = "registry unreachable"

\* the lines of the last call's output that report fixup events
EventLines ==
  SelectSeq(call.out, LAMBDA l : l.text \in {"Starting to copy image",
                                             "Completed image copy",
                                             "Failed to copy image"})

\* C16: the event lines of a push are, copy by copy and in order, one start
\* line and then one end line for the image of that copy; the end line
\* reports a failure exactly when the copy failed; there are no other event
\* lines, so an image that is not copied has none.
C16_EventsBracketCopies ==
  call.op = "push"
    => /\ Len(EventLines) = 2 * Len(call.copies)
       /\ \A i \in DOMAIN call.copies :
            /\ EventLines[2 * i - 1].text = "Starting to copy image"
            /\ EventLines[2 * i - 1].image = call.copies[i].image
            /\ EventLines[2 * i].image = call.copies[i].image
            /\ EventLines[2 * i].text # "Starting to copy image"
            /\ EventLines[2 * i].text = "Failed to copy image" <=> ~call.copies[i].ok
            /\ EventLines[2 * i].detail # "" <=> ~call.copies[i].ok

\* a push that copied one image and failed on the next
C16_Witness ==
  /\ call.op = "push"
  /\ Len(call.copies) = 2
  /\ call.copies[1].ok /\ ~call.copies[2].ok
  /\ Len(call.out) = 4
  /\ call.out[4].text = "Failed to copy image"
  /\ Len(AllImages(held.bun)) > 1

\* C18: a push with a failing output sink has exactly the outcome of the
\* same push (same bundle, reference, relocation map, flag and transport
\* fault) with a working sink: the same next state, and so the same returned
\* map and error, the same copies, the same images and the same manifests.
C18_ReporterNoControlFlow ==
  [][IsCall("push")
       => \A f \in 0..Len(AllImages(held.bun)) + 1 :
            PushBundle(held.bun, call'.tag, held.relo, call'.insecure, f, TRUE)
              <=> PushBundle(held.bun, call'.tag, held.relo, call'.insecure, f, FALSE)]_vars

\* with r.Out failing, a push copied both images, handed the four event lines
\* and the success line to r.Out, and returned a relocation map
C18_Witness ==
  /\ ~sinkOK
  /\ call.op = "push"
  /\ Len(call.copies) = 2
  /\ Len(call.out) = 5
  /\ ret.err = NoError
  /\ ret.relo.present
  /\ RefString(CallRef) \in DOMAIN manifests

\* C19: whenever the transport pull of the last call succeeded, whatever
\* manifest it returned, PullBundle completed: it did not panic.
\* This does not hold: of a manifest without invocation images, line 76 reads
\* bun.InvocationImages[0] and the call panics with an index out of range.
C19_PullAlwaysReturns ==
  (call.op = "pull" /\ CallRef.ok /\ call.pulls = 1 /\ RetrievedThen.err = NoError)
    => ~call.panicked

====
